---- MODULE Spec2Model ----
(***************************************************************************)
(* Model of the attendance registration application (src/app.py): the two  *)
(* tables AccessLink and Attendee, the admin session flag, and one action  *)
(* per route handler.  A handler that talks to the database more than once *)
(* is split at each statement, so that requests handled by different       *)
(* threads interleave the way the database lets them.  The response served *)
(* last is kept with its request, so that properties can speak of both.    *)
(***************************************************************************)
EXTENDS Integers, Sequences, FiniteSets, TLC

\* ---------------------------------------------------------------- bounds
MaxLinks == 2
MaxAttendees == 2

\* ------------------------------------------------------- program constants
ADMIN_USERNAME == "admin"
ADMIN_PASSWORD == "password"

\* Python's None (a missing form field, an empty query result).
None == "<None>"

\* The threads of the server; each handles one request at a time.
Workers == {"w1", "w2"}

\* SQLALCHEMY_DATABASE_URI: the default SQLite file, or whatever DATABASE_URL
\* names; "rc" stands for a server whose isolation level is READ COMMITTED
\* with row locks.
Stores == {"sqlite", "rc"}

\* The tokens: uuid4 values, written 101, 102, ...; one more than can be
\* issued, so that a request can name a token that no link carries.
TokenPool == {100 + k : k \in 1..(MaxLinks + 1)}

\* The submitted registration forms.
Forms ==
  { [name |-> "Ann", role |-> "Member", group |-> ""],
    [name |-> "Bob", role |-> "Guest",  group |-> None],
    [name |-> None,  role |-> "Guest",  group |-> ""],
    [name |-> "",    role |-> "Guest",  group |-> ""],
    [name |-> "Ann", role |-> None,     group |-> ""],
    [name |-> "Ann", role |-> "",       group |-> ""] }

Usernames == {ADMIN_USERNAME, "guest"}
Passwords == {ADMIN_PASSWORD, "wrong"}
Methods == {"GET", "POST"}

VARIABLES
  threaded,   \* whether the server handles requests concurrently
  store,      \* which database the application is configured with
  links,      \* committed AccessLink table, in id order
  attendees,  \* committed Attendee table, in id order
  now,        \* datetime.utcnow(); it advances from one commit to the next
  session,    \* TRUE iff the browser's session carries admin_logged_in
  pc,         \* pc[w]: where the request of worker w stands in its handler
  req,        \* req[w]: the request w is handling (NoReq when idle)
  last,       \* the response served last, with its request
  loc,        \* loc[w]: the handler's locals and its open transaction
  dbLock,     \* SQLite: the worker holding the database write lock
  rowLocks    \* rc: pairs <<worker, link id>> of row locks held

vars == <<threaded, store, links, attendees, now, session, pc, req, last, loc,
          dbLock, rowLocks>>

\* ------------------------------------------------------------------ helpers
\* Python truthiness of a form value: `not name` is true of None and of "".
Truthy(v) == v # None /\ v # ""

\* `if not name or not role` (line 73)
\* (variant: the role is not tested)
FieldsMissing_NameOnly(name, role) == ~Truthy(name)
FieldsMissing(name, role) == ~Truthy(name) \/ ~Truthy(role)

\* `username == ADMIN_USERNAME and password == ADMIN_PASSWORD` (line 108)
\* (variant: the password is not compared)
CredentialsMatch_UserOnly(username, password) == username = ADMIN_USERNAME
CredentialsMatch(username, password) ==
  username = ADMIN_USERNAME /\ password = ADMIN_PASSWORD

\* `if not session.get('admin_logged_in')` passes (line 55)
\* (variant: the guard lets every request through)
LoggedIn_Always(flag) == TRUE
LoggedIn(flag) == flag = TRUE

LinkIds(ls) == {ls[i].id : i \in 1..Len(ls)}
TokensOf(ls) == {ls[i].token : i \in 1..Len(ls)}

\* AccessLink.query.filter_by(token=token, is_active=True).first(): the id of
\* the row found, 0 for None.  token is unique, so at most one row matches.
\* (variant: a token that an Attendee row carries is no longer accepted)
ActiveLinkByToken_Unused(ls, token) ==
  LET m == {i \in 1..Len(ls) : ls[i].token = token /\ ls[i].is_active}
  IN IF m = {} \/ \E k \in 1..Len(attendees) :
                    attendees[k].access_token_used = token
       THEN 0 ELSE ls[CHOOSE i \in m : TRUE].id
\* (variant: the filter on is_active is dropped)
ActiveLinkByToken_AnyState(ls, token) ==
  LET m == {i \in 1..Len(ls) : ls[i].token = token}
  IN IF m = {} THEN 0 ELSE ls[CHOOSE i \in m : TRUE].id
ActiveLinkByToken(ls, token) ==
  LET m == {i \in 1..Len(ls) : ls[i].token = token /\ ls[i].is_active}
  IN IF m = {} THEN 0 ELSE ls[CHOOSE i \in m : TRUE].id

\* AccessLink.query.get_or_404(link_id): the id of the row, 0 for a 404.
\* (variant: an unknown id falls back to the first row)
GetLink_OrFirst(ls, link_id) ==
  IF link_id \in LinkIds(ls) THEN link_id ELSE IF Len(ls) > 0 THEN 1 ELSE 0
GetLink(ls, link_id) == IF link_id \in LinkIds(ls) THEN link_id ELSE 0

\* AccessLink.query.update({AccessLink.is_active: False}), applied to the
\* rows the statement sees.
\* (variant: the rows are deleted instead)
DeactivateAll_Delete(ls, targets) ==
  SelectSeq(ls, LAMBDA l : l.id \notin targets)
\* (variant: the UPDATE is missing)
DeactivateAll_Noop(ls, targets) == ls
DeactivateAll(ls, targets) ==
  [i \in 1..Len(ls) |->
     IF ls[i].id \in targets THEN [ls[i] EXCEPT !.is_active = FALSE]
     ELSE ls[i]]

\* link.is_active = value, flushed as UPDATE ... WHERE id = link.id
\* (variant: the WHERE clause is missing)
SetActive_All(ls, id, value) ==
  [i \in 1..Len(ls) |-> [ls[i] EXCEPT !.is_active = value]]
SetActive(ls, id, value) ==
  [i \in 1..Len(ls) |->
     IF ls[i].id = id THEN [ls[i] EXCEPT !.is_active = value] ELSE ls[i]]

\* str(uuid.uuid4()): a value that no row carries; which one is immaterial,
\* the model takes the least.
\* (variant: the same value every time)
uuid4_Fixed(ls) == 100 + 1
uuid4(ls) == CHOOSE t \in TokenPool \ TokensOf(ls) :
               \A u \in TokenPool \ TokensOf(ls) : t <= u

\* AccessLink(): id from the autoincrement key, token and is_active from the
\* column defaults.  created_at is left out: only the order of the links on
\* the dashboard reads it.
\* (variant: the new link starts inactive)
NewAccessLink_Inactive(ls) ==
  [id |-> Len(ls) + 1, token |-> uuid4(ls), is_active |-> FALSE]
NewAccessLink(ls) ==
  [id |-> Len(ls) + 1, token |-> uuid4(ls), is_active |-> TRUE]

\* Attendee(name=, role=, group=, access_token_used=token)
\* (variant: a missing group is stored as the empty string)
NewAttendee_NoGroup(as, form, token, t) ==
  [id |-> Len(as) + 1, name |-> form.name, role |-> form.role,
   group |-> IF form.group = None THEN "" ELSE form.group,
   timestamp |-> t, access_token_used |-> token]
NewAttendee(as, form, token, t) ==
  [id |-> Len(as) + 1, name |-> form.name, role |-> form.role,
   group |-> form.group, timestamp |-> t, access_token_used |-> token]

\* Responses.  token is the <token> of a redirect to /register/<token>,
\* rows the ids of the attendees a page lists, in its order, csv the rows of
\* an exported file.
NoResp == [status |-> 0, target |-> "", token |-> 0, flash |-> "",
           rows |-> <<>>, csv |-> <<>>]
Render(template, status, flash) ==
  [status |-> status, target |-> template, token |-> 0, flash |-> flash,
   rows |-> <<>>, csv |-> <<>>]
Redirect(endpoint, token, flash) ==
  [status |-> 302, target |-> endpoint, token |-> token, flash |-> flash,
   rows |-> <<>>, csv |-> <<>>]

NoReq == [kind |-> "none"]
NoLoc == [link |-> 0, activate |-> FALSE, targets |-> {}]

\* ------------------------------------------------------------------- Init
Setup ==
  /\ store \in Stores
  /\ links = <<>>
  /\ attendees = <<>>
  /\ now = 0
  /\ session = FALSE
  /\ pc = [w \in Workers |-> "idle"]
  /\ req = [w \in Workers |-> NoReq]
  /\ last = [req |-> NoReq, resp |-> NoResp]
  /\ loc = [w \in Workers |-> NoLoc]
  /\ dbLock = None
  /\ rowLocks = {}

\* app.run(debug=True): the development server, one thread per request.
Init == threaded = TRUE /\ Setup

\* A server that handles one request at a time, on the default database.
InitSeq == threaded = FALSE /\ Setup /\ store = "sqlite"

\* The response to `request` leaves the server.
Serve(c, request, response) ==
  last' = [req |-> request, resp |-> response]

\* A request that ends in its first step.
Finish(c, request, response) ==
  /\ Serve(c, request, response)
  /\ UNCHANGED <<pc, req, loc>>

\* A request that goes on to a further statement.
Continue(c, request, label, locals) ==
  /\ req' = [req EXCEPT ![c] = request]
  /\ pc' = [pc EXCEPT ![c] = label]
  /\ loc' = [loc EXCEPT ![c] = locals]
  /\ UNCHANGED last

\* The last statement of a request: its response is served.
Return(c, response) ==
  /\ Serve(c, req[c], response)
  /\ req' = [req EXCEPT ![c] = NoReq]
  /\ pc' = [pc EXCEPT ![c] = "idle"]
  /\ loc' = [loc EXCEPT ![c] = NoLoc]

Pending(label) == Cardinality({w \in Workers : pc[w] = label})

\* The server hands a request to its first idle thread.
Idle(c) == pc[c] = "idle" /\ (c = "w2" => threaded /\ pc["w1"] # "idle")

\* --------------------------------------------------------------- /register
EmptyForm == [name |-> None, role |-> None, group |-> None]

\* register(token), lines 62-89, up to the point where the row is added:
\* the active-token query, the form fields and their validation.
Register(c) ==
  /\ Idle(c)
  /\ \E method \in Methods, token \in TokenPool :
       \E form \in (IF method = "POST" THEN Forms ELSE {EmptyForm}) :
         LET request == [kind |-> "register", method |-> method,
                         token |-> token, form |-> form]
             link == ActiveLinkByToken(links, token)
         IN IF link = 0
              THEN Finish(c, request, Render("invalid_link.html", 404, ""))
            ELSE IF method = "POST"
              THEN IF FieldsMissing(form.name, form.role)
                     THEN Finish(c, request,
                            Redirect("register", token,
                                     "Name and Role are required fields."))
                     ELSE /\ Len(attendees) + Pending("reg_commit")
                               < MaxAttendees
                          /\ Continue(c, request, "reg_commit", NoLoc)
            ELSE Finish(c, request, Render("register.html", 200, ""))
  /\ UNCHANGED <<threaded, store, links, attendees, now, session, dbLock, rowLocks>>

\* (variant: accepting a submission deactivates its link)
RegisterCommit_Deactivates(c) ==
  /\ pc[c] = "reg_commit"
  /\ store = "sqlite" => dbLock = None
  /\ attendees' = Append(attendees,
                    NewAttendee(attendees, req[c].form, req[c].token, now))
  /\ links' = [i \in 1..Len(links) |->
                IF links[i].token = req[c].token
                  THEN [links[i] EXCEPT !.is_active = FALSE] ELSE links[i]]
  /\ now' = now + 1
  /\ Return(c, Redirect("success", 0, ""))
  /\ UNCHANGED <<threaded, store, session, dbLock, rowLocks>>

\* db.session.add(new_attendee); db.session.commit(); redirect to success
\* (lines 77-85).  SQLite lets the INSERT through only while no other
\* connection holds the write lock.
RegisterCommit(c) ==
  /\ pc[c] = "reg_commit"
  /\ store = "sqlite" => dbLock = None
  /\ attendees' = Append(attendees,
                    NewAttendee(attendees, req[c].form, req[c].token, now))
  /\ now' = now + 1
  /\ Return(c, Redirect("success", 0, ""))
  /\ UNCHANGED <<threaded, store, links, session, dbLock, rowLocks>>

\* success(), lines 91-93
Success(c) ==
  /\ Idle(c)
  /\ Finish(c, [kind |-> "success"], Render("success.html", 200, ""))
  /\ UNCHANGED <<threaded, store, links, attendees, now, session, dbLock,
                 rowLocks>>

\* home(), lines 96-98
Home(c) ==
  /\ Idle(c)
  /\ Finish(c, [kind |-> "home"], Redirect("admin_dashboard", 0, ""))
  /\ UNCHANGED <<threaded, store, links, attendees, now, session, dbLock,
                 rowLocks>>

\* ------------------------------------------------------------ admin session
\* The answer to a login that fails: flash and render the form (lines 112-114).
\* (variant: the message names the field that was wrong)
LoginFailure_Tells(username, password) ==
  Render("admin_login.html", 200,
         IF username # ADMIN_USERNAME THEN "Unknown user."
         ELSE "Wrong password.")
LoginFailure(username, password) ==
  Render("admin_login.html", 200, "Invalid credentials. Please try again.")

\* admin_login(), lines 100-114
Login(c) ==
  /\ Idle(c)
  /\ \E method \in Methods :
       \E username \in (IF method = "POST" THEN Usernames ELSE {None}),
          password \in (IF method = "POST" THEN Passwords ELSE {None}) :
         LET request == [kind |-> "login", method |-> method,
                         username |-> username, password |-> password]
         IN IF session
              THEN /\ Finish(c, request, Redirect("admin_dashboard", 0, ""))
                   /\ UNCHANGED session
            ELSE IF method = "POST" /\ CredentialsMatch(username, password)
              THEN /\ session' = TRUE
                   /\ Finish(c, request,
                        Redirect("admin_dashboard", 0, "Login successful!"))
            ELSE IF method = "POST"
              THEN /\ Finish(c, request, LoginFailure(username, password))
                   /\ UNCHANGED session
            ELSE /\ Finish(c, request, Render("admin_login.html", 200, ""))
                 /\ UNCHANGED session
  /\ UNCHANGED <<threaded, store, links, attendees, now, dbLock, rowLocks>>

\* (variant: the flag is left in the session)
Logout_KeepsFlag(c) ==
  /\ Idle(c)
  /\ Finish(c, [kind |-> "logout"],
            Redirect("admin_login", 0, "You have been logged out."))
  /\ UNCHANGED <<threaded, store, links, attendees, now, session, dbLock,
                 rowLocks>>

\* admin_logout(), lines 116-120
Logout(c) ==
  /\ Idle(c)
  /\ session' = FALSE
  /\ Finish(c, [kind |-> "logout"],
            Redirect("admin_login", 0, "You have been logged out."))
  /\ UNCHANGED <<threaded, store, links, attendees, now, dbLock, rowLocks>>

\* login_required, lines 52-59: the response of a guarded route to a request
\* without the session flag.
LoginRedirect == Redirect("admin_login", 0, "Please log in to access this page.")

\* ------------------------------------------------------------ the database
\* Whether the store lets worker c write the rows `targets` now: SQLite has
\* one write lock for the database, the server locks the rows written.  A
\* statement that finds its lock taken waits for the holder's commit.
LockFree(c, targets) ==
  IF store = "sqlite" THEN dbLock = None
  ELSE \A l \in rowLocks : l[2] \in targets => l[1] = c

\* The rows an UPDATE without WHERE writes: under SQLite the table as it is
\* once the write lock is held, on the server the rows of the snapshot taken
\* when the statement started.
UpdateTargets(c) ==
  IF store = "sqlite" THEN LinkIds(links) ELSE loc[c].targets

\* The UPDATE runs: it takes its locks and its writes stay pending in the
\* transaction of worker c until the commit.
RunUpdate(c, label) ==
  /\ LockFree(c, UpdateTargets(c))
  /\ dbLock' = IF store = "sqlite" THEN c ELSE dbLock
  /\ rowLocks' = IF store = "sqlite" THEN rowLocks
                 ELSE rowLocks \cup {<<c, i>> : i \in UpdateTargets(c)}
  /\ loc' = [loc EXCEPT ![c].targets = UpdateTargets(c)]
  /\ pc' = [pc EXCEPT ![c] = label]
  /\ UNCHANGED <<threaded, store, links, attendees, now, session, req, last>>

\* COMMIT: the locks of worker c are released.
Release(c) ==
  /\ dbLock' = IF dbLock = c THEN None ELSE dbLock
  /\ rowLocks' = {l \in rowLocks : l[1] # c}

\* ----------------------------------------------------- /admin/generate-link
\* generate_link(), lines 152-163: the guard, then the UPDATE is sent.
GenerateLink(c) ==
  /\ Idle(c)
  /\ IF ~LoggedIn(session)
       THEN Finish(c, [kind |-> "generate"], LoginRedirect)
       ELSE /\ Len(links) + Pending("gen_upd") + Pending("gen_commit")
                 < MaxLinks
            /\ Continue(c, [kind |-> "generate"], "gen_upd",
                        [NoLoc EXCEPT !.targets = LinkIds(links)])
  /\ UNCHANGED <<threaded, store, links, attendees, now, session, dbLock, rowLocks>>

\* AccessLink.query.update({AccessLink.is_active: False})  (line 156)
GenerateUpdate(c) ==
  /\ pc[c] = "gen_upd"
  /\ RunUpdate(c, "gen_commit")

\* new_link = AccessLink(); add; commit; redirect (lines 159-163)
GenerateCommit(c) ==
  /\ pc[c] = "gen_commit"
  /\ links' = Append(DeactivateAll(links, loc[c].targets),
                     NewAccessLink(links))
  /\ Release(c)
  /\ Return(c, Redirect("admin_dashboard", 0,
         "New access link generated and activated. Previous links have been deactivated."))
  /\ UNCHANGED <<threaded, store, attendees, now, session>>

\* ------------------------------------------------ /admin/toggle-link/<id>
\* toggle_link_status(link_id), lines 165-179: the guard, get_or_404 and the
\* branch on the is_active value that was read.
ToggleLink(c) ==
  /\ Idle(c)
  /\ \E link_id \in 1..(MaxLinks + 1) :
       LET request == [kind |-> "toggle", link_id |-> link_id]
           link == GetLink(links, link_id)
       IN IF ~LoggedIn(session) THEN Finish(c, request, LoginRedirect)
          ELSE IF link = 0 THEN Finish(c, request, Render("404", 404, ""))
          ELSE IF ~links[link].is_active
            THEN Continue(c, request, "tog_stmt",
                   [link |-> link, activate |-> TRUE, targets |-> {}])
          ELSE Continue(c, request, "tog_commit",
                   [link |-> link, activate |-> FALSE, targets |-> {}])
  /\ UNCHANGED <<threaded, store, links, attendees, now, session, dbLock, rowLocks>>

\* line 171 is sent: the statement takes its snapshot of the table
ToggleStatement(c) ==
  /\ pc[c] = "tog_stmt"
  /\ loc' = [loc EXCEPT ![c].targets = LinkIds(links)]
  /\ pc' = [pc EXCEPT ![c] = "tog_upd"]
  /\ UNCHANGED <<threaded, store, links, attendees, now, session, req, last,
                 dbLock, rowLocks>>

\* AccessLink.query.update({AccessLink.is_active: False})  (line 171)
ToggleUpdate(c) ==
  /\ pc[c] = "tog_upd"
  /\ RunUpdate(c, "tog_commit")

\* link.is_active = True / False and db.session.commit() (lines 172-179):
\* the flush writes the target row, the commit publishes the transaction.
ToggleCommit(c) ==
  /\ pc[c] = "tog_commit"
  /\ IF loc[c].activate
       THEN /\ links' = SetActive(DeactivateAll(links, loc[c].targets),
                                  loc[c].link, TRUE)
            /\ Return(c, Redirect("admin_dashboard", 0,
                   "Link has been activated. All other links deactivated."))
       ELSE /\ LockFree(c, {loc[c].link})
            /\ links' = SetActive(links, loc[c].link, FALSE)
            /\ Return(c, Redirect("admin_dashboard", 0,
                   "Link has been deactivated."))
  /\ Release(c)
  /\ UNCHANGED <<threaded, store, attendees, now, session>>

\* -------------------------------------------------------- /admin/dashboard
SortBys == {"name", "role", "group", "timestamp", "id"}
Orders == {"asc", "desc", "up"}
sortable_columns == {"name", "role", "group", "timestamp"}

\* `if sort_by not in sortable_columns: sort_by = 'timestamp'` (lines 130-131)
\* (variant: an unknown column sorts by name)
SortColumn_ByName(sort_by) ==
  IF sort_by \in sortable_columns THEN sort_by ELSE "name"
SortColumn(sort_by) ==
  IF sort_by \in sortable_columns THEN sort_by ELSE "timestamp"

\* `if order == 'asc': ... .asc() else: ... .desc()` (lines 134-137)
Descending(order) == order # "asc"

\* The place of a string in the store's collation (binary).
Rank(v) ==
  CASE v = "" -> 0
    [] v = "Ann" -> 1
    [] v = "Bob" -> 2
    [] v = "Guest" -> 3
    [] v = "Member" -> 4

\* Whether row a sorts strictly before row b in ORDER BY col ASC.  A NULL
\* sorts before every value under SQLite and after every value on the
\* server.
Before(a, b, col) ==
  IF col = "timestamp" THEN a[col] < b[col]
  ELSE IF a[col] = None \/ b[col] = None
    THEN IF store = "sqlite" THEN a[col] = None /\ b[col] # None
         ELSE a[col] # None /\ b[col] = None
  ELSE Rank(a[col]) < Rank(b[col])

\* The permutations of 1..n, for every size the table can have.
Perms ==
  [n \in 0..(MaxAttendees + 1) |->
     {p \in [1..n -> 1..n] : \A i, j \in 1..n : p[i] = p[j] => i = j}]

\* query.order_by(column.asc() / .desc()).all(): the orders in which the
\* store may return the rows; rows with equal keys come in any order.
OrderedBy(as, col, desc) ==
  LET n == Len(as)
      perms == Perms[n]
      sorted(p) == \A i, j \in 1..n :
                     i < j => IF desc THEN ~Before(as[p[i]], as[p[j]], col)
                              ELSE ~Before(as[p[j]], as[p[i]], col)
  IN {[i \in 1..n |-> as[p[i]]] : p \in {q \in perms : sorted(q)}}

IdsOf(rows) == [i \in 1..Len(rows) |-> rows[i].id]

\* admin_dashboard(), lines 122-150
Dashboard(c) ==
  /\ Idle(c)
  /\ \E sort_by \in SortBys, order \in Orders :
       LET request == [kind |-> "dashboard", sort_by |-> sort_by,
                       order |-> order]
       IN IF ~LoggedIn(session) THEN Finish(c, request, LoginRedirect)
          ELSE \E rows \in OrderedBy(attendees, SortColumn(sort_by),
                                     Descending(order)) :
                 Finish(c, request,
                   [Render("admin_dashboard.html", 200, "")
                      EXCEPT !.rows = IdsOf(rows)])
  /\ UNCHANGED <<threaded, store, links, attendees, now, session, dbLock,
                 rowLocks>>

\* -------------------------------------------------------- /admin/export-csv
CsvHeader ==
  <<"ID", "Name", "Role", "Group", "Timestamp (UTC)", "Access Token Used">>

\* attendee.timestamp.strftime('%Y-%m-%d %H:%M:%S'): the time as text
strftime(t) == ToString(t)

\* csv.writer writes None as the empty field and a number as its digits.
CsvCell(v) == IF v = None THEN "" ELSE v

\* writer.writerow([...]) of one attendee (lines 195-202)
CsvRow(a) ==
  <<ToString(a.id), a.name, a.role, CsvCell(a.group), strftime(a.timestamp),
    a.access_token_used>>

\* Attendee.query.order_by(Attendee.timestamp.desc()).all()  (line 184)
\* (variant: oldest first)
ExportOrder_Ascending(as) == OrderedBy(as, "timestamp", FALSE)
ExportOrder(as) == OrderedBy(as, "timestamp", TRUE)

\* export_csv(), lines 181-210
ExportCsv(c) ==
  /\ Idle(c)
  /\ IF ~LoggedIn(session)
       THEN Finish(c, [kind |-> "export"], LoginRedirect)
       ELSE \E rows \in ExportOrder(attendees) :
              Finish(c, [kind |-> "export"],
                [Render("attendance_export.csv", 200, "")
                   EXCEPT !.csv = <<CsvHeader>>
                                  \o [i \in 1..Len(rows) |-> CsvRow(rows[i])]])
  /\ UNCHANGED <<threaded, store, links, attendees, now, session, dbLock,
                 rowLocks>>

\* ------------------------------------------------------------ specification
Step(c) ==
  \/ Register(c)
  \/ RegisterCommit(c)
  \/ Success(c)
  \/ Home(c)
  \/ Login(c)
  \/ Logout(c)
  \/ GenerateLink(c)
  \/ GenerateUpdate(c)
  \/ GenerateCommit(c)
  \/ ToggleLink(c)
  \/ ToggleStatement(c)
  \/ ToggleUpdate(c)
  \/ ToggleCommit(c)
  \/ Dashboard(c)
  \/ ExportCsv(c)

Next == \E c \in Workers : Step(c)

Spec == Init /\ [][Next]_vars

\* The requests arrive one after the other.
SpecSeq == InitSeq /\ [][Next]_vars

\* ==================================================================== claims
\* What the claims speak about, stated on the tables themselves.
HasActive(ls, token) ==
  \E i \in 1..Len(ls) : ls[i].token = token /\ ls[i].is_active
NumActive(ls) == Cardinality({i \in 1..Len(ls) : ls[i].is_active})
Blank(v) == v = None \/ v = ""

\* A handler answered in its first step / worker w took its request further /
\* worker w finished a request it had taken further.
Answered(kind) == last' # last /\ pc' = pc /\ last'.req.kind = kind
Took(w, label) == pc[w] = "idle" /\ pc'[w] = label
Returned(w, label) == pc[w] = label /\ pc'[w] = "idle"

\* C1: with the requests served one after the other, at most one AccessLink
\* row is active in every committed state of the table.
C1_AtMostOneActive == NumActive(links) <= 1

\* C1 witness: a generate and a toggle have committed: the older of two links
\* is the active one.
C1_Witness ==
  /\ ~threaded
  /\ Len(links) = 2
  /\ links[1].is_active /\ ~links[2].is_active
  /\ last.req.kind = "toggle"

\* C2: with concurrent generate-link / toggle-link requests, no committed
\* state has two active AccessLink rows.
C2_NoTwoActive ==
  \A i, j \in 1..Len(links) :
    links[i].is_active /\ links[j].is_active => i = j

\* C3: a registration submission whose token has no active link is answered
\* 404 (invalid link), goes no further and creates no Attendee row.
C3_InactiveTokenNotFound ==
  [][ /\ \A w \in Workers :
           Took(w, "reg_commit") => HasActive(links, req'[w].token)
      /\ (Answered("register") /\ last'.req.method = "POST"
            /\ ~HasActive(links, last'.req.token))
         => (last'.resp.status = 404 /\ attendees' = attendees)
    ]_vars

\* C3 witness: a complete form was posted with the token of a link that was
\* deactivated, and answered 404.
C3_Witness ==
  /\ last.req.kind = "register" /\ last.req.method = "POST"
  /\ ~Blank(last.req.form.name) /\ ~Blank(last.req.form.role)
  /\ last.resp.status = 404
  /\ \E i \in 1..Len(links) :
       links[i].token = last.req.token /\ ~links[i].is_active

\* C4: every Attendee row is committed at a moment when the link carrying
\* its access_token_used is active.
C4_CommittedWhileActive ==
  [][ Len(attendees') > Len(attendees)
      => HasActive(links', attendees'[Len(attendees')].access_token_used)
    ]_vars

\* C5 as stated: a submission with a blank name or role creates no row and is
\* answered with a redirect to the form of the same token.
C5_AsStated ==
  [][ /\ \A w \in Workers :
           Took(w, "reg_commit")
           => ~Blank(req'[w].form.name) /\ ~Blank(req'[w].form.role)
      /\ (Answered("register") /\ last'.req.method = "POST"
            /\ (Blank(last'.req.form.name) \/ Blank(last'.req.form.role)))
         => /\ attendees' = attendees
            /\ last'.resp.status = 302
            /\ last'.resp.target = "register"
            /\ last'.resp.token = last'.req.token
    ]_vars

\* C5 amended: a submission with a blank name or role creates no row; it is
\* answered with a redirect to the form of the same token when the token's
\* link is active, and with 404 (invalid link) when it is not.
C5_BlankFieldNoRow ==
  [][ /\ \A w \in Workers :
           Took(w, "reg_commit")
           => ~Blank(req'[w].form.name) /\ ~Blank(req'[w].form.role)
      /\ (Answered("register") /\ last'.req.method = "POST"
            /\ (Blank(last'.req.form.name) \/ Blank(last'.req.form.role)))
         => /\ attendees' = attendees
            /\ IF HasActive(links, last'.req.token)
                 THEN /\ last'.resp.status = 302
                      /\ last'.resp.target = "register"
                      /\ last'.resp.token = last'.req.token
                 ELSE last'.resp.status = 404
    ]_vars

\* C5 witness: a form with a name and no role was posted with an active
\* token and answered with the redirect to the form.
C5_Witness ==
  /\ last.req.kind = "register" /\ last.req.method = "POST"
  /\ ~Blank(last.req.form.name) /\ Blank(last.req.form.role)
  /\ HasActive(links, last.req.token)
  /\ last.resp.status = 302 /\ last.resp.target = "register"
  /\ last.resp.token = last.req.token

AdminKinds == {"dashboard", "generate", "toggle", "export"}

\* C6: an admin-only request made without the session flag is answered with
\* the redirect to the login view, goes no further and leaves both tables
\* and the session as they were.
C6_GuardRedirects ==
  [][ /\ \A w \in Workers :
           (Took(w, "gen_upd") \/ Took(w, "tog_stmt") \/ Took(w, "tog_commit"))
           => session
      /\ \A kind \in AdminKinds :
           (Answered(kind) /\ ~session)
           => /\ last'.resp.status = 302
              /\ last'.resp.target = "admin_login"
              /\ links' = links
              /\ attendees' = attendees
              /\ session' = session
    ]_vars

\* C6 witness: with a link active and the flag absent, a toggle-link request
\* was redirected to the login view.
C6_Witness ==
  /\ ~session
  /\ last.req.kind = "toggle"
  /\ last.resp.target = "admin_login"
  /\ NumActive(links) = 1

\* C7: without the flag, a login sets it iff both credentials match; the
\* flag appears only by such a login and disappears only by a logout.
C7_LoginIffMatch ==
  [][ /\ (~session /\ Answered("login") /\ last'.req.method = "POST")
         => (session' <=> (last'.req.username = ADMIN_USERNAME
                           /\ last'.req.password = ADMIN_PASSWORD))
      /\ (~session /\ session')
         => /\ Answered("login") /\ last'.req.method = "POST"
            /\ last'.req.username = ADMIN_USERNAME
            /\ last'.req.password = ADMIN_PASSWORD
      /\ (session /\ ~session') => Answered("logout")
    ]_vars

\* C7 witness: a login with the right username and a wrong password was
\* refused and the flag is absent.
C7_Witness ==
  /\ ~session
  /\ last.req.kind = "login" /\ last.req.method = "POST"
  /\ last.req.username = ADMIN_USERNAME /\ last.req.password # ADMIN_PASSWORD
  /\ last.resp.status = 200

\* C8: a generate-link request that commits adds exactly one link, active,
\* and leaves every link that existed before inactive, its id and token
\* unchanged.
C8_GenerateRotates ==
  [][ \A w \in Workers :
        Returned(w, "gen_commit")
        => /\ Len(links') = Len(links) + 1
           /\ links'[Len(links')].is_active
           /\ links'[Len(links')].id \notin {links[i].id : i \in 1..Len(links)}
           /\ \A i \in 1..Len(links) :
                /\ links'[i].id = links[i].id
                /\ links'[i].token = links[i].token
                /\ ~links'[i].is_active
    ]_vars

\* C8 witness: link A was generated, then link B: A is inactive, B active.
C8_Witness ==
  /\ ~threaded
  /\ last.req.kind = "generate" /\ last.resp.target = "admin_dashboard"
  /\ Len(links) = 2
  /\ ~links[1].is_active /\ links[2].is_active

\* C9: a toggle-link request on an existing link that commits: an inactive
\* target ends active with every other link inactive; an active target ends
\* inactive with every other link as it was.  No link is added or removed.
C9_ToggleFlips ==
  [][ \A w \in Workers :
        Returned(w, "tog_commit")
        => LET id == req[w].link_id
           IN /\ Len(links') = Len(links)
              /\ \A i \in 1..Len(links) :
                   /\ links'[i].id = links[i].id
                   /\ links'[i].token = links[i].token
              /\ IF links[id].is_active
                   THEN \A i \in 1..Len(links) :
                          links'[i].is_active =
                            (i # id /\ links[i].is_active)
                   ELSE \A i \in 1..Len(links) :
                          links'[i].is_active = (i = id)
    ]_vars

\* C9 witness: the only active link was toggled off: two links, none active.
C9_Witness ==
  /\ ~threaded
  /\ last.req.kind = "toggle" /\ last.resp.target = "admin_dashboard"
  /\ Len(links) = 2
  /\ NumActive(links) = 0

\* C10: a toggle-link request of a logged-in admin whose id matches no row
\* is answered 404, goes no further and leaves the table as it was.
C10_ToggleUnknownId ==
  [][ /\ \A w \in Workers :
           (Took(w, "tog_stmt") \/ Took(w, "tog_commit"))
           => \E i \in 1..Len(links) : links[i].id = req'[w].link_id
      /\ (Answered("toggle") /\ session
            /\ ~\E i \in 1..Len(links) : links[i].id = last'.req.link_id)
         => (last'.resp.status = 404 /\ links' = links)
    ]_vars

\* C10 witness: with links in the table, one of them active, a toggle of an
\* unknown id was answered 404.
C10_Witness ==
  /\ session
  /\ last.req.kind = "toggle" /\ last.resp.status = 404
  /\ NumActive(links) = 1
  /\ last.req.link_id > Len(links)

\* C11: a POST to /register/<token> with an active token and non-blank name
\* and role is taken to the insert, and the insert adds exactly one Attendee
\* row after the rows already there, carrying the submitted name, role and
\* group (an empty group as "", an absent group as NULL) and the token of the
\* URL; its response is the redirect to the success page.
C11_ValidSubmissionAddsRow ==
  [][ /\ (Answered("register") /\ last'.req.method = "POST")
         => \/ ~HasActive(links, last'.req.token)
            \/ Blank(last'.req.form.name)
            \/ Blank(last'.req.form.role)
      /\ \A w \in Workers :
           Returned(w, "reg_commit")
           => /\ Len(attendees') = Len(attendees) + 1
              /\ \A i \in 1..Len(attendees) : attendees'[i] = attendees[i]
              /\ attendees'[Len(attendees')].name = req[w].form.name
              /\ attendees'[Len(attendees')].role = req[w].form.role
              /\ attendees'[Len(attendees')].group = req[w].form.group
              /\ attendees'[Len(attendees')].access_token_used = req[w].token
              /\ last'.req = req[w]
              /\ last'.resp.status = 302
              /\ last'.resp.target = "success"
    ]_vars

\* C11 witness: two submissions were accepted, one with an empty group and
\* one without a group field, the last one answered with the redirect.
C11_Witness ==
  /\ ~threaded
  /\ last.req.kind = "register" /\ last.resp.target = "success"
  /\ Len(attendees) = 2
  /\ \E i, j \in 1..2 : attendees[i].group = "" /\ attendees[j].group = None
  /\ attendees[2].name = last.req.form.name
  /\ attendees[2].access_token_used = last.req.token

\* C12: no step deletes an AccessLink row or changes the id or token of one,
\* and no step deletes or changes an Attendee row: both tables only grow at
\* the end, and of an existing link only is_active may change.
C12_RowsKept ==
  [][ /\ Len(links') >= Len(links)
      /\ \A i \in 1..Len(links) :
           links'[i].id = links[i].id /\ links'[i].token = links[i].token
      /\ Len(attendees') >= Len(attendees)
      /\ \A i \in 1..Len(attendees) : attendees'[i] = attendees[i]
    ]_vars

\* C12 witness: a link that an attendee registered with was deactivated by a
\* later generate-link, and both the link and the attendee row are still there.
C12_Witness ==
  /\ ~threaded
  /\ last.req.kind = "generate" /\ last.resp.target = "admin_dashboard"
  /\ Len(links) = 2 /\ ~links[1].is_active
  /\ Len(attendees) >= 1
  /\ attendees[1].access_token_used = links[1].token

\* C13 as stated: a link is single-use, so that no two Attendee rows carry
\* the same access_token_used.
C13_SingleUse ==
  \A i, j \in 1..Len(attendees) :
    attendees[i].access_token_used = attendees[j].access_token_used => i = j

\* C13: a link is not used up by a submission: while it is active, a POST
\* with its token and non-blank name and role is taken to the insert even
\* when rows registered with that token exist already.
C13_ActiveLinkReusable ==
  [][ /\ (/\ Answered("register") /\ last'.req.method = "POST"
          /\ \E i \in 1..Len(attendees) :
               attendees[i].access_token_used = last'.req.token
          /\ ~Blank(last'.req.form.name)
          /\ ~Blank(last'.req.form.role))
         => (~HasActive(links, last'.req.token)
               /\ last'.resp.status = 404)
      /\ \A w \in Workers :
           Returned(w, "reg_commit")
           => \A i \in 1..Len(links) :
                links'[i].is_active = links[i].is_active
    ]_vars

\* C13 witness: two attendees registered with the same token, and its link
\* is still active.
C13_Witness ==
  /\ ~threaded
  /\ Len(attendees) = 2
  /\ attendees[1].access_token_used = attendees[2].access_token_used
  /\ HasActive(links, attendees[2].access_token_used)
  /\ last.req.kind = "register" /\ last.resp.target = "success"

\* C14: logout clears the session flag and changes neither table; an
\* admin-only request that follows it is answered with the redirect to the
\* login view; the flag is only set again by a POST to the login view with
\* the configured username and password.
C14_LogoutClears ==
  [][ /\ Answered("logout")
         => /\ ~session'
            /\ links' = links /\ attendees' = attendees
            /\ last'.resp.status = 302 /\ last'.resp.target = "admin_login"
      /\ (last.req.kind = "logout" /\ last'.req.kind \in AdminKinds
            /\ last' # last)
         => /\ pc' = pc
            /\ last'.resp.status = 302 /\ last'.resp.target = "admin_login"
            /\ links' = links /\ attendees' = attendees /\ ~session'
      /\ (~session /\ session')
         => /\ last'.req.kind = "login" /\ last'.req.method = "POST"
            /\ last'.req.username = ADMIN_USERNAME
            /\ last'.req.password = ADMIN_PASSWORD
    ]_vars

\* C14 witness: an admin who had generated a link logged out, and the
\* request after the logout, an export, was answered with the redirect.
C14_Witness ==
  /\ ~session
  /\ Len(links) = 1
  /\ last.req.kind = "export" /\ last.resp.target = "admin_login"

\* The sort key of a column value: timestamps by their value, texts in
\* alphabetical order; NULL is the store's affair (SQLite sorts it first).
C15_Key(a, col) ==
  IF col = "timestamp" THEN a[col]
  ELSE IF a[col] = None THEN 0 - 1
  ELSE Rank(a[col])

C15_Comparable(a, b, col) ==
  store = "sqlite" \/ (a[col] # None /\ b[col] # None)

\* C15: the dashboard of a logged-in admin lists every attendee once, ordered
\* by the requested column when it is one of name, role, group, timestamp and
\* by timestamp for any other sort_by; ascending when order is asc and
\* descending for desc and for any other order.  So an unrecognized sort_by
\* has the results of timestamp and an unrecognized order those of desc.
C15_ListOrdering ==
  [][ (Answered("dashboard") /\ session)
      => LET rows == last'.resp.rows
             sort_by == last'.req.sort_by
             col == IF sort_by \in {"name", "role", "group", "timestamp"}
                      THEN sort_by ELSE "timestamp"
             asc == last'.req.order = "asc"
         IN /\ last'.resp.status = 200
            /\ Len(rows) = Len(attendees)
            /\ \A i \in 1..Len(attendees) :
                 \E k \in 1..Len(rows) : rows[k] = attendees[i].id
            /\ \A k, l \in 1..Len(rows) :
                 (k < l /\ C15_Comparable(attendees[rows[k]],
                                          attendees[rows[l]], col))
                 => IF asc
                      THEN C15_Key(attendees[rows[k]], col)
                             <= C15_Key(attendees[rows[l]], col)
                      ELSE C15_Key(attendees[rows[k]], col)
                             >= C15_Key(attendees[rows[l]], col)
    ]_vars

\* C15 witness: a listing asked with an unknown sort_by and an unknown order
\* came back newest first, although the older row has the smaller name.
C15_Witness ==
  /\ session
  /\ last.req.kind = "dashboard"
  /\ last.req.sort_by = "id" /\ last.req.order = "up"
  /\ Len(attendees) = 2
  /\ attendees[1].name = "Ann" /\ attendees[2].name = "Bob"
  /\ last.resp.rows = <<2, 1>>

\* C16: the export of a logged-in admin is the header row followed by one
\* data row for each attendee, every attendee id in exactly one of them, the
\* data rows by descending timestamp; the tables and the session are left as
\* they were.
C16_ExportRows ==
  [][ (Answered("export") /\ session)
      => LET csv == last'.resp.csv
             RowOf(k) == CHOOSE i \in 1..Len(attendees) :
                           ToString(attendees[i].id) = csv[k][1]
         IN /\ Len(csv) = Len(attendees) + 1
            /\ csv[1] = <<"ID", "Name", "Role", "Group", "Timestamp (UTC)",
                          "Access Token Used">>
            /\ \A i \in 1..Len(attendees) :
                 Cardinality({k \in 2..Len(csv) :
                                csv[k][1] = ToString(attendees[i].id)}) = 1
            /\ \A k, l \in 2..Len(csv) :
                 k < l => attendees[RowOf(k)].timestamp
                            >= attendees[RowOf(l)].timestamp
            /\ links' = links /\ attendees' = attendees
            /\ session' = session
    ]_vars

\* C16 witness: with two attendees the export has three rows, the newer
\* attendee in the first data row.
C16_Witness ==
  /\ session
  /\ last.req.kind = "export"
  /\ Len(attendees) = 2
  /\ Len(last.resp.csv) = 3
  /\ last.resp.csv[2][1] = "2" /\ last.resp.csv[3][1] = "1"

\* C17: every login POST that is refused from a logged-out session gets one
\* and the same response, whichever of the two fields was wrong, and leaves
\* the session without the flag: nothing in the answer depends on the
\* username or the password that was sent.
C17_FailureUniform ==
  [][ (/\ Answered("login") /\ last'.req.method = "POST"
       /\ ~session
       /\ (last'.req.username # ADMIN_USERNAME
             \/ last'.req.password # ADMIN_PASSWORD))
      => /\ last'.resp = [status |-> 200, target |-> "admin_login.html",
                          token |-> 0,
                          flash |-> "Invalid credentials. Please try again.",
                          rows |-> <<>>, csv |-> <<>>]
         /\ ~session'
    ]_vars

\* C17 witness: a login with a wrong username and the right password was
\* refused with the common message.
C17_Witness ==
  /\ ~session
  /\ last.req.kind = "login" /\ last.req.method = "POST"
  /\ last.req.username # ADMIN_USERNAME /\ last.req.password = ADMIN_PASSWORD
  /\ last.resp.flash = "Invalid credentials. Please try again."

\* C18: the AccessLink table changes only in the commit of a generate-link
\* or toggle-link request and the Attendee table only in the commit of a
\* registration; no statement of a registration, login or logout changes a
\* link, none of generate-link or toggle-link changes an attendee, and the
\* dashboard and the export change neither.
C18_OwnTableOnly ==
  [][ /\ links' # links
         => \E w \in Workers :
              /\ Returned(w, "gen_commit") \/ Returned(w, "tog_commit")
              /\ req[w].kind \in {"generate", "toggle"}
              /\ attendees' = attendees
      /\ attendees' # attendees
         => \E w \in Workers :
              /\ Returned(w, "reg_commit")
              /\ req[w].kind = "register"
              /\ links' = links
      /\ \A kind \in {"register", "login", "logout", "dashboard", "export"} :
           Answered(kind) => (links' = links /\ attendees' = attendees)
      /\ \A kind \in {"generate", "toggle"} :
           Answered(kind) => attendees' = attendees
    ]_vars

\* C18 witness: after a registration, a generate-link committed: two links,
\* the attendee row as it was.
C18_Witness ==
  /\ ~threaded
  /\ last.req.kind = "generate" /\ last.resp.target = "admin_dashboard"
  /\ Len(links) = 2 /\ links[2].is_active
  /\ Len(attendees) = 1
  /\ attendees[1].access_token_used = links[1].token

\* C19: no two AccessLink rows have the same token, so at most one row
\* matches a token, and the access_token_used of every Attendee row is the
\* token of a row of the AccessLink table.
C19_TokensUnique ==
  /\ \A i, j \in 1..Len(links) : links[i].token = links[j].token => i = j
  /\ \A token \in TokenPool :
       Cardinality({i \in 1..Len(links) :
                      links[i].token = token /\ links[i].is_active}) <= 1
  /\ \A k \in 1..Len(attendees) :
       \E i \in 1..Len(links) :
         links[i].token = attendees[k].access_token_used

\* C19 witness: two links, and two attendees who registered with different
\* tokens.
C19_Witness ==
  /\ ~threaded
  /\ Len(links) = 2
  /\ Len(attendees) = 2
  /\ attendees[1].access_token_used = links[1].token
  /\ attendees[2].access_token_used = links[2].token

====
